---- MODULE Spec2Model ----
(***************************************************************************)
(* Model of data_standardization/standardize_health_data.py:               *)
(* HealthDataStandardizer._standardize_timestamp (timestamp normalizer)    *)
(* and create_base_timeline / merge_all_data (timeline merger), driven by  *)
(* main().                                                                 *)
(*                                                                         *)
(* Instants are whole seconds since 1970-01-01 00:00.  A timestamp value   *)
(* is a record [local, tz]: the wall-clock reading and the zone tag        *)
(* ("naive" when there is none).  A DataFrame is a record                  *)
(* [cols, dtype, rows]: the column names in order, the dtype of each       *)
(* column, and the rows as tuples aligned with cols.                       *)
(***************************************************************************)
EXTENDS Integers, Sequences, FiniteSets, TLC

VARIABLES
    npc,        \* normalizer harness: "start", "normalized", "renormalized"
    ndf,        \* normalizer harness: the frame handed to _standardize_timestamp
    nres,       \* normalizer harness: result of the first call
    nres2,      \* normalizer harness: result of the call on the normalized frame
    pc,         \* position of main()
    data_frames,            \* self.data_frames: sequence of <<name, frame>> in insertion order
    device_temperature_df,  \* self.device_temperature_df
    computed_temperature_df,\* self.computed_temperature_df
    ingested,   \* streams whose input files held at least one row
    timeline,   \* value returned by create_base_timeline inside merge_all_data
    final_df    \* value returned by merge_all_data

vars == <<npc, ndf, nres, nres2, pc, data_frames, device_temperature_df,
          computed_temperature_df, ingested, timeline, final_df>>

nvars == <<npc, ndf, nres, nres2>>
pvars == <<pc, data_frames, device_temperature_df, computed_temperature_df,
           ingested, timeline, final_df>>

----------------------------------------------------------------------------
(* Bounds *)

MaxLen == 2         \* rows of the column in the normalizer harness
MaxFiles == 1       \* blood-glucose files matched by the glob
MaxSecondary == 1   \* secondary streams whose files are present in one run

----------------------------------------------------------------------------
(* Time *)

Minute == 60
Hour == 60 * Minute
Day == 24 * Hour                    \* pd.Timedelta(days=1)
Jan1 == 19358 * Day                 \* 2023-01-01 00:00:00
Noon == Jan1 + 12 * Hour            \* 2023-01-01 12:00:00

\* UTC offset of a zone tag, in seconds
Offset(tz) ==
    CASE tz = "+05:00" -> 5 * Hour
      [] tz = "-04:00" -> 0 - 4 * Hour
      [] OTHER -> 0

NaT == [local |-> 0, tz |-> "NaT"]
NaN == -1
NaNObj == [local |-> 0, tz |-> "NaN"]

MissingOf(dt) ==
    CASE dt = "datetime" -> NaT
      [] dt = "object" -> NaNObj
      [] OTHER -> NaN

\* rounding to the minute with a tie going to the later minute
RoundHalfUp(t) == ((t + 30) \div Minute) * Minute

\* Series.dt.round('min'): nearest multiple of one minute, a tie going to the
\* even multiple
RoundMin(t) ==
    LET q == t \div Minute
        r == t % Minute
    IN  IF r < 30 THEN q * Minute
        ELSE IF r > 30 THEN (q + 1) * Minute
        ELSE IF q % 2 = 0 THEN q * Minute ELSE (q + 1) * Minute

Round(ts) == [local |-> RoundMin(ts.local), tz |-> ts.tz]

\* dt.tz_localize(zone): tag the wall-clock reading, no shift
TzLocalize(ts, zone) == [local |-> ts.local, tz |-> zone]

\* a conversion that retags the reading and leaves it unshifted
TzConvertNoShift(ts) == [local |-> ts.local, tz |-> "UTC"]

\* dt.tz_convert('UTC'): same instant, read on the UTC clock
TzConvertUTC(ts) == [local |-> ts.local - Offset(ts.tz), tz |-> "UTC"]

\* the instant a timestamp denotes (a naive one compares as its reading)
Instant(ts) == ts.local - Offset(ts.tz)

----------------------------------------------------------------------------
(* DataFrames *)

\* a sequence given by a rule, as a tuple of its elements
AsTuple(s) == s \o <<>>

Range(s) == {s[i] : i \in 1..Len(s)}

IndexOf(s, x) == CHOOSE i \in 1..Len(s) : s[i] = x

Column(df, c) ==
    LET k == IndexOf(df.cols, c) IN AsTuple([i \in 1..Len(df.rows) |-> df.rows[i][k]])

DtypeOf(df, c) == df.dtype[IndexOf(df.cols, c)]

WithColumn(df, c, vals, dt) ==
    LET k == IndexOf(df.cols, c)
    IN  [cols |-> df.cols,
         dtype |-> [df.dtype EXCEPT ![k] = dt],
         rows |-> AsTuple([i \in 1..Len(df.rows) |-> [df.rows[i] EXCEPT ![k] = vals[i]]])]

EmptyFrame == [cols |-> <<>>, dtype |-> <<>>, rows |-> <<>>]

----------------------------------------------------------------------------
(* _standardize_timestamp *)

date_candidates ==
    <<"date", "timestamp", "creation_date", "recorded_time", "sleep_start", "sleep_end">>

\* lines 17-25: the explicit name, else the first candidate that is a column;
\* "" when there is none (ValueError)
ResolveDateCol(df, date_col) ==
    IF date_col # "" THEN date_col
    ELSE LET hits == {i \in 1..Len(date_candidates) : date_candidates[i] \in Range(df.cols)}
         IN  IF hits = {} THEN ""
             ELSE date_candidates[CHOOSE i \in hits : \A j \in hits : i <= j]

\* pd.to_datetime(..., format='mixed') followed by the .dt accessor: the column
\* becomes a datetime column only when every row carries the same zone tag
ParsesToDatetime(vals) == \A i, j \in 1..Len(vals) : vals[i].tz = vals[j].tz

ColumnTz(vals) == IF Len(vals) = 0 THEN "naive" ELSE vals[1].tz

\* lines 34-39
OrigUtc(p, tz) ==
    Round(IF tz = "naive" THEN TzLocalize(p, "UTC") ELSE TzConvertUTC(p))

\* a timestamp left with its zone tag
TzKeep(ts) == ts

\* line 44, second half: dt.tz_localize(None)
TzStrip(ts) == TzLocalize(ts, "naive")

\* lines 42-47
Final(p, tz) ==
    Round(TzStrip(TzConvertUTC(IF tz = "naive" THEN TzLocalize(p, "UTC") ELSE p)))

\* lines 70-72
AdjustmentType(x) == IF x > 0 THEN "round_up" ELSE "round_down"

\* lines 50-59
Adjustments(original, orig_utc, final) ==
    LET all == [i \in 1..Len(final) |->
                   [index |-> i - 1,
                    original |-> original[i],
                    original_utc |-> orig_utc[i],
                    final |-> final[i],
                    difference_seconds |->
                        Instant(TzLocalize(final[i], "UTC")) - Instant(orig_utc[i])]]
        Differs(a) == Instant(a.original_utc) # Instant(TzLocalize(a.final, "UTC"))
    IN  SelectSeq(all, Differs)

StandardizeTimestamp(df, date_col) ==
    LET dc == ResolveDateCol(df, date_col)
    IN  IF dc = "" THEN [err |-> "ValueError", df |-> df, adjustments |-> <<>>]
        ELSE IF dc \notin Range(df.cols)
        THEN [err |-> "KeyError", df |-> df, adjustments |-> <<>>]
        ELSE
        LET original == Column(df, dc)
        IN  IF DtypeOf(df, dc) # "datetime" /\ ~ParsesToDatetime(original)
            THEN [err |-> "ValueError", df |-> df, adjustments |-> <<>>]
            ELSE
            LET tz == ColumnTz(original)
                orig_utc == AsTuple([i \in 1..Len(original) |-> OrigUtc(original[i], tz)])
                final == AsTuple([i \in 1..Len(original) |-> Final(original[i], tz)])
            IN  [err |-> "",
                 df |-> WithColumn(df, dc, final, "datetime"),
                 adjustments |-> Adjustments(original, orig_utc, final)]

----------------------------------------------------------------------------
(* Normalizer harness: one column of raw timestamps, normalized, then       *)
(* normalized again (as create_base_timeline does with a datetime column)   *)

SeqsUpTo(S, n) == UNION {[1..k -> S] : k \in 1..n}

NormOffsets == {0, 29, 30, 31, 89, 90, 91}
NormZones == {"naive", "+00:00", "+05:00"}
RawStamps == {[local |-> Noon + d, tz |-> z] : d \in NormOffsets, z \in NormZones}

NoResult == [err |-> "none", df |-> EmptyFrame, adjustments |-> <<>>]

PipelineIdle ==
    /\ pc = "idle"
    /\ data_frames = <<>>
    /\ device_temperature_df = EmptyFrame
    /\ computed_temperature_df = EmptyFrame
    /\ ingested = {}
    /\ timeline = EmptyFrame
    /\ final_df = EmptyFrame

InitNorm ==
    /\ npc = "start"
    /\ \E col \in SeqsUpTo(RawStamps, MaxLen) :
          ndf = [cols |-> <<"timestamp">>, dtype |-> <<"object">>,
                 rows |-> [i \in 1..Len(col) |-> <<col[i]>>]]
    /\ nres = NoResult
    /\ nres2 = NoResult
    /\ PipelineIdle

NStandardize ==
    /\ npc = "start"
    /\ nres' = StandardizeTimestamp(ndf, "")
    /\ npc' = "normalized"
    /\ UNCHANGED <<ndf, nres2>>
    /\ UNCHANGED pvars

NRestandardize ==
    /\ npc = "normalized"
    /\ nres.err = ""
    /\ nres2' = StandardizeTimestamp(nres.df, "timestamp")
    /\ npc' = "renormalized"
    /\ UNCHANGED <<ndf, nres>>
    /\ UNCHANGED pvars

NextNorm == NStandardize \/ NRestandardize

SpecNorm == InitNorm /\ [][NextNorm]_vars

----------------------------------------------------------------------------
(* pandas operations used by the pipeline *)

\* the positions of 1..n that are in S, in order
Positions(n, S) == SelectSeq([i \in 1..n |-> i], LAMBDA i : i \in S)

\* df[[...]] by position
TakeColumns(df, ks) ==
    [cols |-> AsTuple([i \in 1..Len(ks) |-> df.cols[ks[i]]]),
     dtype |-> AsTuple([i \in 1..Len(ks) |-> df.dtype[ks[i]]]),
     rows |-> AsTuple([r \in 1..Len(df.rows) |->
                         AsTuple([i \in 1..Len(ks) |-> df.rows[r][ks[i]]])])]

\* df.drop(c, axis=1)
DropColumn(df, c) ==
    TakeColumns(df, Positions(Len(df.cols), {i \in 1..Len(df.cols) : df.cols[i] # c}))

\* df.rename(columns={old: new})
RenameColumn(df, old, new) ==
    [df EXCEPT !.cols =
        AsTuple([i \in 1..Len(df.cols) |-> IF df.cols[i] = old THEN new ELSE df.cols[i]])]

\* pd.concat([a, b], ignore_index=True): columns of a, then the new ones of b
Concat2(a, b) ==
    IF a.cols = <<>> THEN b
    ELSE
    LET extra == Positions(Len(b.cols),
                           {i \in 1..Len(b.cols) : b.cols[i] \notin Range(a.cols)})
        cols == a.cols \o [i \in 1..Len(extra) |-> b.cols[extra[i]]]
        dtype == a.dtype \o [i \in 1..Len(extra) |-> b.dtype[extra[i]]]
        Cell(df, row, k) ==
            IF cols[k] \in Range(df.cols) THEN row[IndexOf(df.cols, cols[k])]
            ELSE MissingOf(dtype[k])
        Row(df, row) == AsTuple([k \in 1..Len(cols) |-> Cell(df, row, k)])
    IN  [cols |-> cols,
         dtype |-> dtype,
         rows |-> [r \in 1..Len(a.rows) |-> Row(a, a.rows[r])]
                  \o [r \in 1..Len(b.rows) |-> Row(b, b.rows[r])]]

RECURSIVE ConcatFrom(_, _)
ConcatFrom(dfs, k) ==
    IF k > Len(dfs) THEN EmptyFrame
    ELSE IF k = Len(dfs) THEN dfs[k]
    ELSE Concat2(dfs[k], ConcatFrom(dfs, k + 1))

\* pd.concat(dfs, ignore_index=True), dfs not empty
Concat(dfs) == ConcatFrom(dfs, 1)

\* df.sort_values(c) on a datetime column: ascending; rows of equal key are
\* kept in their order (pandas leaves their order open, and nothing below
\* depends on it)
RECURSIVE InsertSorted(_, _, _)
InsertSorted(rows, row, k) ==
    IF rows = <<>> THEN <<row>>
    ELSE IF Instant(row[k]) < Instant(Head(rows)[k]) THEN <<row>> \o rows
    ELSE <<Head(rows)>> \o InsertSorted(Tail(rows), row, k)

RECURSIVE SortRows(_, _, _)
SortRows(rows, n, k) ==
    IF n = 0 THEN <<>>
    ELSE InsertSorted(SortRows(rows, n - 1, k), rows[n], k)

SortValues(df, c) ==
    [df EXCEPT !.rows = SortRows(df.rows, Len(df.rows), IndexOf(df.cols, c))]

\* the rows of parts[lo], ..., parts[hi], one after another
RECURSIVE FlattenRange(_, _, _)
FlattenRange(parts, lo, hi) ==
    IF lo > hi THEN <<>>
    ELSE IF lo = hi THEN parts[lo]
    ELSE LET mid == (lo + hi) \div 2
         IN  FlattenRange(parts, lo, mid) \o FlattenRange(parts, mid + 1, hi)

\* a join condition that takes the nearest minutes too
KeyWithinMinute(a, b) == a.local - b.local \in (0 - Minute)..Minute

\* the join condition of pd.merge: equal keys
KeyEq(a, b) == a = b

\* the labels a side of pd.merge ends with: an overlapping name takes the suffix
Suffixed(cols, overlap, suffix) ==
    AsTuple([i \in 1..Len(cols) |-> IF cols[i] \in overlap THEN cols[i] \o suffix ELSE cols[i]])

\* pd.merge(left, right, left_on=, right_on=, how='left', suffixes=)
Merge(left, right, left_on, right_on, suffixes) ==
    IF left_on \notin Range(left.cols) \/ right_on \notin Range(right.cols)
    THEN [err |-> "KeyError", df |-> left]
    ELSE IF (DtypeOf(left, left_on) = "datetime") # (DtypeOf(right, right_on) = "datetime")
    THEN [err |-> "ValueError", df |-> left]
    ELSE
    LET lk == IndexOf(left.cols, left_on)
        rk == IndexOf(right.cols, right_on)
        \* a key named alike on both sides is kept once
        rkept == IF left_on = right_on THEN DropColumn(right, right_on) ELSE right
        overlap == Range(left.cols) \cap Range(rkept.cols)
        lcols == Suffixed(left.cols, overlap, suffixes[1])
        rcols == Suffixed(rkept.cols, overlap, suffixes[2])
        clash == \/ Range(lcols) \cap (Range(rkept.cols) \ overlap) # {}
                 \/ Range(rcols) \cap (Range(left.cols) \ overlap) # {}
                 \/ (overlap # {} /\ suffixes[1] = suffixes[2])
        missing == AsTuple([i \in 1..Len(rkept.cols) |-> MissingOf(rkept.dtype[i])])
        Expand(i) ==
            LET l == left.rows[i]
                hits == Positions(Len(right.rows),
                                  {j \in 1..Len(right.rows) : KeyEq(l[lk], right.rows[j][rk])})
            IN  IF hits = <<>> THEN <<l \o missing>>
                ELSE [h \in 1..Len(hits) |-> l \o rkept.rows[hits[h]]]
    IN  IF clash THEN [err |-> "MergeError", df |-> left]
        ELSE [err |-> "",
              df |-> [cols |-> lcols \o rcols,
                      dtype |-> left.dtype \o rkept.dtype,
                      rows |-> FlattenRange(AsTuple([i \in 1..Len(left.rows) |-> Expand(i)]),
                                            1, Len(left.rows))]]

\* df.loc[:, ~df.columns.duplicated()]
DropDuplicatedColumns(df) ==
    LET first == {i \in 1..Len(df.cols) : \A j \in 1..(i - 1) : df.cols[j] # df.cols[i]}
    IN  TakeColumns(df, Positions(Len(df.cols), first))

----------------------------------------------------------------------------
(* self.data_frames: a dict, kept as <<name, frame>> pairs in insertion order *)

Has(frames, name) == \E i \in 1..Len(frames) : frames[i][1] = name

Get(frames, name) == frames[CHOOSE i \in 1..Len(frames) : frames[i][1] = name][2]

Put(frames, name, df) ==
    IF Has(frames, name)
    THEN [i \in 1..Len(frames) |-> IF frames[i][1] = name THEN <<name, df>> ELSE frames[i]]
    ELSE Append(frames, <<name, df>>)

----------------------------------------------------------------------------
(* create_base_timeline *)

MinLocal(vals) == CHOOSE t \in {vals[i].local : i \in 1..Len(vals)} :
                      \A i \in 1..Len(vals) : t <= vals[i].local

MaxLocal(vals) == CHOOSE t \in {vals[i].local : i \in 1..Len(vals)} :
                      \A i \in 1..Len(vals) : t >= vals[i].local

\* a range that stops one step before end
DateRangeOpenEnd(start, end) ==
    AsTuple([k \in 1..((end - start) \div Minute) |->
                [local |-> start + (k - 1) * Minute, tz |-> "naive"]])

\* pd.date_range(start, end, freq='min'): start, start + 1 min, ... up to end
DateRange(start, end) ==
    AsTuple([k \in 1..((end - start) \div Minute + 1) |->
                [local |-> start + (k - 1) * Minute, tz |-> "naive"]])

CreateBaseTimeline(frames) ==
    IF ~Has(frames, "blood_glucose") THEN [err |-> "ValueError", df |-> EmptyFrame]
    ELSE
    LET dates == Column(Get(frames, "blood_glucose"), "date")
        start_date == MinLocal(dates) - Day
        end_date == MaxLocal(dates) + Day
        tl == DateRange(start_date, end_date)
        base_df == [cols |-> <<"timestamp">>, dtype |-> <<"datetime">>,
                    rows |-> AsTuple([i \in 1..Len(tl) |-> <<tl[i]>>])]
        std == StandardizeTimestamp(base_df, "timestamp")
    IN  [err |-> std.err, df |-> std.df]

----------------------------------------------------------------------------
(* merge_all_data *)

\* the column names of the modelled files whose lower-cased form contains
\* 'time', 'date' or 'timestamp' (lines 270-272)
TimeLike ==
    {"date", "DATE", "timestamp", "creation_date", "recorded_time", "update_time",
     "start_timestamp", "end_timestamp"}

TimeCols(df) ==
    LET ks == Positions(Len(df.cols), {i \in 1..Len(df.cols) : df.cols[i] \in TimeLike})
    IN  AsTuple([i \in 1..Len(ks) |-> df.cols[ks[i]]])

\* lines 262-289, from entry k of data_frames on
RECURSIVE MergeOthers(_, _, _)
MergeOthers(acc, frames, k) ==
    IF k > Len(frames) THEN [err |-> "", df |-> acc]
    ELSE
    LET name == frames[k][1]
        df == frames[k][2]
    IN  IF df.rows = <<>> \/ name = "blood_glucose" \/ TimeCols(df) = <<>>
        THEN MergeOthers(acc, frames, k + 1)
        ELSE LET m == Merge(acc, df, "timestamp", TimeCols(df)[1], <<"", "_" \o name>>)
             IN  IF m.err # "" THEN m ELSE MergeOthers(m.df, frames, k + 1)

\* lines 245-256
MergePrimary(base, frames) ==
    IF Has(frames, "blood_glucose")
    THEN Merge(base, Get(frames, "blood_glucose"), "timestamp", "date", <<"_x", "_y">>)
    ELSE [err |-> "", df |-> base]

MergeAllData(frames) ==
    LET base == CreateBaseTimeline(frames)
    IN  IF base.err # "" THEN [err |-> base.err, timeline |-> EmptyFrame, df |-> EmptyFrame]
        ELSE
        LET first == MergePrimary(base.df, frames)
        IN  IF first.err # ""
            THEN [err |-> first.err, timeline |-> base.df, df |-> EmptyFrame]
            ELSE
            LET rest == MergeOthers(first.df, frames, 1)
            IN  IF rest.err # ""
                THEN [err |-> rest.err, timeline |-> base.df, df |-> EmptyFrame]
                ELSE [err |-> "", timeline |-> base.df,
                      df |-> DropDuplicatedColumns(rest.df)]

----------------------------------------------------------------------------
(* Input files.  A file as read by pd.read_csv: its timestamp columns hold   *)
(* raw text (dtype object), every other column a number.                     *)

TS(t, z) == [local |-> t, tz |-> z]

RawTimeNames ==
    {"date", "DATE", "timestamp", "creation_date", "recorded_time", "update_time",
     "sleep_start", "sleep_end"}

\* a file with the given columns, one row per entry of times; measurement
\* cells are base + 10 * row + column
MakeFile(cols, times, base) ==
    [cols |-> cols,
     dtype |-> AsTuple([k \in 1..Len(cols) |->
                           IF cols[k] \in RawTimeNames THEN "object" ELSE "num"]),
     rows |-> AsTuple([r \in 1..Len(times) |->
                 AsTuple([k \in 1..Len(cols) |->
                     IF cols[k] \in RawTimeNames THEN times[r] ELSE base + 10 * r + k])])]

BglShapes == {<<"date", "bgl">>, <<"date", "bgl", "timestamp">>}

\* readings of one blood-glucose file
BglTimes ==
    {<<TS(Jan1 + 10, "naive")>>,
     <<TS(Jan1 + Day, "+00:00"), TS(Jan1 + 20, "+00:00"), TS(Jan1 + 10, "+00:00")>>}

\* rows of a secondary file: on the primary's minute, twice on one minute,
\* outside the timeline
OnGrid == <<TS(Jan1 + 30, "naive")>>
Twice == <<TS(Jan1 + 30, "naive"), TS(Jan1, "naive")>>
OffGrid == <<TS(Jan1 - 3 * Day, "naive")>>
Later == <<TS(Jan1 + 5 * Hour + 3 * Minute + 29, "+05:00")>>

ReadinessCols == <<"date", "readiness_score_value">>
SleepScoreCols ==
    <<"timestamp", "overall_score", "deep_sleep_in_minutes", "resting_heart_rate",
      "restlessness">>
SleepProfileCols ==
    <<"creation_date", "sleep_type", "deep_sleep", "rem_sleep", "sleep_duration">>
DeviceTempCols == <<"recorded_time", "temperature">>
ComputedTempCols == <<"sleep_start", "sleep_end", "nightly_temperature">>
Spo2Cols == <<"timestamp", "value">>
StressCols ==
    <<"DATE", "STRESS_SCORE", "SLEEP_POINTS", "RESPONSIVENESS_POINTS", "EXERTION_POINTS",
      "STATUS">>
HrvSummaryCols == <<"timestamp", "rmssd", "nremhr", "entropy">>
HrvDetailsCols == <<"timestamp", "rmssd", "coverage", "low_frequency", "high_frequency">>
RespiratoryShapes ==
    {<<"timestamp", "daily_respiratory_rate">>,
     <<"sleep_start", "daily_respiratory_rate">>,
     <<"update_time", "timestamp", "daily_respiratory_rate">>}

SecondaryCount == Cardinality(ingested \ {"blood_glucose"})

Room(n) == SecondaryCount + n <= MaxSecondary

Rows(files) == \E i \in 1..Len(files) : files[i].rows # <<>>

Mark(name, files) == IF Rows(files) THEN {name} ELSE {}

\* _standardize_timestamp on every file of a list
StandardizeEach(files, date_col) ==
    [i \in 1..Len(files) |-> StandardizeTimestamp(files[i], date_col)]

AnyErr(results) == \E i \in 1..Len(results) : results[i].err # ""

Frames(results) == [i \in 1..Len(results) |-> results[i].df]

Crash ==
    /\ pc' = "failed"
    /\ UNCHANGED <<data_frames, device_temperature_df, computed_temperature_df,
                   ingested, timeline, final_df>>

----------------------------------------------------------------------------
(* main(): the process_* calls in order, then merge_all_data *)

\* lines 78-117
process_blood_glucose ==
    /\ pc = "blood_glucose"
    /\ \E shape \in BglShapes, times \in SeqsUpTo(BglTimes, MaxFiles) \cup {<<>>} :
          LET files == [i \in 1..Len(times) |-> MakeFile(shape, times[i], 100 * i)]
              std == StandardizeEach(files, "")
              all_bgl == [i \in 1..Len(std) |-> SortValues(std[i].df, "date")]
          IN  IF files = <<>> \/ AnyErr(std) THEN Crash
              ELSE /\ data_frames' =
                        Put(data_frames, "blood_glucose", SortValues(Concat(all_bgl), "date"))
                   /\ ingested' = ingested \cup Mark("blood_glucose", files)
                   /\ pc' = "daily_readiness"
                   /\ UNCHANGED <<device_temperature_df, computed_temperature_df,
                                  timeline, final_df>>
    /\ UNCHANGED nvars

\* the shared body of the process_* operations that read a list of files,
\* normalize each and store the concatenation under one name
StoreStream(name, files, date_col, next) ==
    LET std == StandardizeEach(files, date_col)
    IN  IF files = <<>>
        THEN /\ pc' = next
             /\ UNCHANGED <<data_frames, device_temperature_df, computed_temperature_df,
                            ingested, timeline, final_df>>
        ELSE IF AnyErr(std) THEN Crash
        ELSE /\ data_frames' = Put(data_frames, name, Concat(Frames(std)))
             /\ ingested' = ingested \cup Mark(name, files)
             /\ pc' = next
             /\ UNCHANGED <<device_temperature_df, computed_temperature_df,
                            timeline, final_df>>

\* lines 119-135
process_daily_readiness ==
    /\ pc = "daily_readiness"
    /\ \E files \in {<<>>} \cup
                    (IF Room(1) THEN {<<MakeFile(ReadinessCols, t, 200)>> : t \in {Later}}
                     ELSE {}) :
          StoreStream("daily_readiness", files, "", "sleep")
    /\ UNCHANGED nvars

\* lines 137-160
process_sleep ==
    /\ pc = "sleep"
    /\ \E score \in {<<>>, <<MakeFile(SleepScoreCols, OnGrid, 300)>>},
          profile \in {<<>>, <<MakeFile(SleepProfileCols, OnGrid, 400)>>} :
          /\ Room(Len(score) + Len(profile))
          /\ LET s == StandardizeEach(score, "timestamp")
                 p == StandardizeEach(profile, "creation_date")
                 withScore == IF score = <<>> THEN data_frames
                              ELSE Put(data_frames, "sleep_score", s[1].df)
             IN  IF AnyErr(s) \/ AnyErr(p) THEN Crash
                 ELSE /\ data_frames' = IF profile = <<>> THEN withScore
                                        ELSE Put(withScore, "sleep_profile", p[1].df)
                      /\ ingested' = ingested \cup Mark("sleep_score", score)
                                              \cup Mark("sleep_profile", profile)
                      /\ pc' = "temperature"
                      /\ UNCHANGED <<device_temperature_df, computed_temperature_df,
                                     timeline, final_df>>
    /\ UNCHANGED nvars

\* df[new] = pd.to_datetime(df[src]): a datetime column appended, the
\* readings as they are in the file
WithDatetime(df, src, new) ==
    [cols |-> Append(df.cols, new),
     dtype |-> Append(df.dtype, "datetime"),
     rows |-> AsTuple([r \in 1..Len(df.rows) |->
                         Append(df.rows[r], df.rows[r][IndexOf(df.cols, src)])])]

\* lines 171-176
DeviceFrame(df) == DropColumn(WithDatetime(df, "recorded_time", "timestamp"), "recorded_time")

\* lines 192-199
ComputedFrame(df) ==
    DropColumn(
        DropColumn(
            RenameColumn(
                WithDatetime(WithDatetime(df, "sleep_start", "start_timestamp"),
                             "sleep_end", "end_timestamp"),
                "nightly_temperature", "temperature"),
            "sleep_start"),
        "sleep_end")

\* lines 162-208
process_temperature ==
    /\ pc = "temperature"
    /\ \E device \in {<<>>, <<MakeFile(DeviceTempCols, OnGrid, 500)>>},
          computed \in {<<>>, <<MakeFile(ComputedTempCols, OnGrid, 600)>>} :
          /\ Room(Len(device) + Len(computed))
          /\ device_temperature_df' =
                IF device = <<>> THEN device_temperature_df
                ELSE SortValues(Concat([i \in 1..Len(device) |-> DeviceFrame(device[i])]),
                                "timestamp")
          /\ computed_temperature_df' =
                IF computed = <<>> THEN computed_temperature_df
                ELSE SortValues(Concat([i \in 1..Len(computed) |-> ComputedFrame(computed[i])]),
                                "start_timestamp")
          /\ ingested' = ingested \cup Mark("device_temperature", device)
                                  \cup Mark("computed_temperature", computed)
    /\ pc' = "spo2"
    /\ UNCHANGED <<data_frames, timeline, final_df>>
    /\ UNCHANGED nvars

\* lines 304-326
process_spo2 ==
    /\ pc = "spo2"
    /\ \E files \in {<<>>} \cup
                    (IF Room(1)
                     THEN {<<MakeFile(Spo2Cols, t, 700)>> : t \in {OnGrid, Twice, OffGrid}}
                     ELSE {}) :
          StoreStream("spo2", files, "", "stress_score")
    /\ UNCHANGED nvars

\* lines 328-343
process_stress_score ==
    /\ pc = "stress_score"
    /\ \E files \in {<<>>} \cup
                    (IF Room(1) THEN {<<MakeFile(StressCols, t, 800)>> : t \in {OnGrid}}
                     ELSE {}) :
          StoreStream("stress_score", files, "DATE", "hrv")
    /\ UNCHANGED nvars

\* lines 345-390
process_hrv ==
    /\ pc = "hrv"
    /\ \E summary \in {<<>>, <<MakeFile(HrvSummaryCols, OnGrid, 900)>>},
          details \in {<<>>, <<MakeFile(HrvDetailsCols, Twice, 1000)>>} :
          /\ Room(Len(summary) + Len(details))
          /\ LET s == StandardizeEach(summary, "")
                 d == StandardizeEach(details, "")
                 withSummary == IF summary = <<>> THEN data_frames
                                ELSE Put(data_frames, "hrv_summary", Concat(Frames(s)))
             IN  IF AnyErr(s) \/ AnyErr(d) THEN Crash
                 ELSE /\ data_frames' = IF details = <<>> THEN withSummary
                                        ELSE Put(withSummary, "hrv_details", Concat(Frames(d)))
                      /\ ingested' = ingested \cup Mark("hrv_summary", summary)
                                              \cup Mark("hrv_details", details)
                      /\ pc' = "respiratory_rate"
                      /\ UNCHANGED <<device_temperature_df, computed_temperature_df,
                                     timeline, final_df>>
    /\ UNCHANGED nvars

\* lines 392-409
process_respiratory_rate ==
    /\ pc = "respiratory_rate"
    /\ \E files \in {<<>>} \cup
                    (IF Room(1)
                     THEN {<<MakeFile(shape, OnGrid, 1100)>> : shape \in RespiratoryShapes}
                     ELSE {}) :
          StoreStream("respiratory_rate", files, "", "merge")
    /\ UNCHANGED nvars

\* lines 237-302
merge_all_data ==
    /\ pc = "merge"
    /\ \E m \in {MergeAllData(data_frames)} :
           /\ timeline' = m.timeline
           /\ final_df' = m.df
           /\ pc' = IF m.err = "" THEN "done" ELSE "failed"
    /\ UNCHANGED <<data_frames, device_temperature_df, computed_temperature_df, ingested>>
    /\ UNCHANGED nvars

Init ==
    /\ npc = "idle"
    /\ ndf = EmptyFrame
    /\ nres = NoResult
    /\ nres2 = NoResult
    /\ pc = "blood_glucose"
    /\ data_frames = <<>>
    /\ device_temperature_df = EmptyFrame
    /\ computed_temperature_df = EmptyFrame
    /\ ingested = {}
    /\ timeline = EmptyFrame
    /\ final_df = EmptyFrame

Next ==
    \/ process_blood_glucose
    \/ process_daily_readiness
    \/ process_sleep
    \/ process_temperature
    \/ process_spo2
    \/ process_stress_score
    \/ process_hrv
    \/ process_respiratory_rate
    \/ merge_all_data

Spec == Init /\ [][Next]_vars

----------------------------------------------------------------------------
(* Claims about _standardize_timestamp, checked under SpecNorm *)

Normalized == npc \in {"normalized", "renormalized"} /\ nres.err = ""

RawAt(i) == ndf.rows[i][1]
FinalAt(i) == nres.df.rows[i][1]

\* the instant of a raw value on the UTC clock, a naive one read as UTC
UtcOf(raw) ==
    CASE raw.tz = "naive" -> raw.local
      [] raw.tz = "+00:00" -> raw.local
      [] raw.tz = "+05:00" -> raw.local - 5 * Hour

\* the step-3 reference value of row i
ReferenceAt(i) == OrigUtc(RawAt(i), ColumnTz(Column(ndf, "timestamp")))

\* C1: every normalized timestamp is a whole minute at most 30 seconds from
\* the row's instant in UTC, where a naive T counts as UTC (no shift) and
\* T@+05:00 as T - 5h.
C1_UtcNearestMinute ==
    Normalized =>
        \A i \in 1..Len(ndf.rows) :
            /\ FinalAt(i).local % Minute = 0
            /\ FinalAt(i).local - UtcOf(RawAt(i)) \in (0 - 30)..30

C1_Witness ==
    /\ Normalized
    /\ \E i \in 1..Len(ndf.rows) :
          /\ RawAt(i) = [local |-> Noon + 31, tz |-> "+05:00"]
          /\ FinalAt(i).local = Noon - 5 * Hour + Minute

\* C2: every returned timestamp has no sub-minute part and no zone tag, and
\* normalizing the normalized column again returns it unchanged.
C2_CanonicalIdempotent ==
    /\ Normalized =>
          \A i \in 1..Len(ndf.rows) :
              FinalAt(i).local % Minute = 0 /\ FinalAt(i).tz = "naive"
    /\ npc = "renormalized" => nres2.err = "" /\ nres2.df = nres.df

C2_Witness ==
    /\ npc = "renormalized"
    /\ nres2.err = ""
    /\ \E i \in 1..Len(ndf.rows) : RawAt(i).local % Minute # 0 /\ RawAt(i).tz # "naive"

\* C3 (as claimed): a displacement record exists for exactly the rows whose
\* value was changed by the normalization, and 12:00:30Z gives one record of
\* +30 seconds classified round_up.
C3_DisplacementRecords ==
    Normalized =>
        \A i \in 1..Len(ndf.rows) :
            LET recs == {a \in Range(nres.adjustments) : a.index = i - 1}
            IN  /\ (FinalAt(i).local # RawAt(i).local) <=> (recs # {})
                /\ RawAt(i) = [local |-> Noon + 30, tz |-> "+00:00"] =>
                      \E a \in recs : /\ a.difference_seconds = 30
                                      /\ AdjustmentType(a.difference_seconds) = "round_up"

\* C4 (as claimed): a value exactly 30 seconds past a minute goes to the later
\* minute, in the reference value and in the final value.
C4_HalfUp ==
    Normalized =>
        \A i \in 1..Len(ndf.rows) :
            UtcOf(RawAt(i)) % Minute = 30 =>
                /\ FinalAt(i).local = UtcOf(RawAt(i)) + 30
                /\ ReferenceAt(i).local = UtcOf(RawAt(i)) + 30

\* C4 (amended): a value exactly 30 seconds past a minute goes to the even
\* minute of the two: the later one when the earlier minute is odd, the
\* earlier one when it is even; the reference value and the final value alike.
C4_HalfEven ==
    Normalized =>
        \A i \in 1..Len(ndf.rows) :
            UtcOf(RawAt(i)) % Minute = 30 =>
                LET earlier == UtcOf(RawAt(i)) - 30
                    even == IF (earlier \div Minute) % 2 = 0 THEN earlier
                            ELSE earlier + Minute
                IN  /\ FinalAt(i).local = even
                    /\ ReferenceAt(i).local = even

C4_Witness ==
    /\ Normalized
    /\ \E i \in 1..Len(ndf.rows) :
          /\ RawAt(i) = [local |-> Noon + 30, tz |-> "+00:00"]
          /\ FinalAt(i).local = Noon
    /\ \E i \in 1..Len(ndf.rows) :
          /\ RawAt(i) = [local |-> Noon + 90, tz |-> "+00:00"]
          /\ FinalAt(i).local = Noon + 2 * Minute

----------------------------------------------------------------------------
(* Claims about create_base_timeline and merge_all_data, checked under Spec *)

GridAt(i) == timeline.rows[i][1]

PrimaryDates == Column(Get(data_frames, "blood_glucose"), "date")

\* C5: the grid starts at the primary series' minimum minus one day, ends at
\* its maximum plus one day, and steps by exactly one minute; a primary series
\* spanning 2023-01-01 00:00 to 2023-01-02 00:00 gives 4321 rows.
C5_TimelineGrid ==
    timeline # EmptyFrame =>
        LET n == Len(timeline.rows)
            d == PrimaryDates
        IN  /\ n >= 1
            /\ \E j \in 1..Len(d) : GridAt(1).local = d[j].local - Day
            /\ \A j \in 1..Len(d) : GridAt(1).local <= d[j].local - Day
            /\ \E j \in 1..Len(d) : GridAt(n).local = d[j].local + Day
            /\ \A j \in 1..Len(d) : GridAt(n).local >= d[j].local + Day
            /\ \A i \in 1..(n - 1) : GridAt(i + 1).local = GridAt(i).local + Minute
            /\ ({d[j].local : j \in 1..Len(d)} = {Jan1, Jan1 + Day}) => n = 4321

C5_Witness ==
    /\ pc = "done"
    /\ Len(timeline.rows) = 4321
    /\ GridAt(1).local = Jan1 - Day
    /\ GridAt(4321).local = Jan1 + 2 * Day

\* C6 (as claimed): the merged dataset has exactly one row per grid minute, in
\* grid order.
C6_OneRowPerMinute ==
    pc = "done" =>
        /\ Len(final_df.rows) = Len(timeline.rows)
        /\ \A i \in 1..Len(final_df.rows) : final_df.rows[i][1] = GridAt(i)

\* the series that merge_all_data joins after the primary one
Joined(k) ==
    /\ data_frames[k][1] # "blood_glucose"
    /\ data_frames[k][2].rows # <<>>
    /\ Range(data_frames[k][2].cols) \cap TimeLike # {}

\* the column of a frame that holds Canonical Timestamps
StampCol(df) == df.cols[CHOOSE i \in 1..Len(df.cols) : df.dtype[i] = "datetime"]

\* the name under which column c of series name stands in the merged dataset
OutName(c, name) ==
    IF (c \o "_" \o name) \in Range(final_df.cols) THEN c \o "_" \o name ELSE c

\* C7: a value of a joined series stands only on rows whose timestamp equals
\* the timestamp of the series row it comes from; a row whose timestamp
\* matches no row of the series holds the missing marker in the series'
\* columns (so a series row outside the grid appears nowhere).
C7_LeftJoinExact ==
    pc = "done" =>
        \A k \in 1..Len(data_frames) :
            Joined(k) =>
                LET name == data_frames[k][1]
                    df == data_frames[k][2]
                    key == IndexOf(df.cols, StampCol(df))
                IN  \A c \in 1..Len(df.cols) :
                        df.cols[c] # "timestamp" =>
                            LET out == IndexOf(final_df.cols, OutName(df.cols[c], name))
                            IN  \A r \in 1..Len(final_df.rows) :
                                    LET row == final_df.rows[r]
                                        hits == {j \in 1..Len(df.rows) :
                                                    df.rows[j][key] = row[1]}
                                    IN  IF hits = {} THEN row[out] = MissingOf(df.dtype[c])
                                        ELSE \E j \in hits : row[out] = df.rows[j][c]

C7_Witness ==
    /\ pc = "done"
    /\ Has(data_frames, "spo2")
    /\ "value" \in Range(final_df.cols)
    /\ LET v == IndexOf(final_df.cols, "value")
       IN  /\ \E r \in 1..Len(final_df.rows) :
                 /\ final_df.rows[r][v] = 712
                 /\ final_df.rows[r][1] = [local |-> Jan1, tz |-> "naive"]
           /\ \E r \in 1..Len(final_df.rows) : final_df.rows[r][v] = NaN

\* the names the accumulated dataset holds before entry k of data_frames is
\* joined, the series' own names taken as they are read
Earlier(k) ==
    {"timestamp"} \cup
    UNION {Range(data_frames[j][2].cols) :
              j \in {i \in 1..(k - 1) : i = 1 \/ Joined(i)}}

\* C8 (as claimed): a column whose name already exists in the accumulated
\* dataset leaves the existing column under its name and stands itself as
\* <column>_<series name>; every other column stands under its own name.
C8_NoOverwrite ==
    pc = "done" =>
        /\ "timestamp" \in Range(final_df.cols)
        /\ \A k \in 1..Len(data_frames) :
              (data_frames[k][1] = "blood_glucose" \/ Joined(k)) =>
                 LET name == data_frames[k][1]
                     df == data_frames[k][2]
                     key == IF name = "blood_glucose" THEN "date" ELSE TimeCols(df)[1]
                 IN  \A c \in Range(df.cols) \ ({key} \cap {"timestamp"}) :
                        /\ c \in Range(final_df.cols)
                        /\ c \in Earlier(k) => (c \o "_" \o name) \in Range(final_df.cols)

\* the measurement columns of an ingested stream, as merge_all_data would
\* have to show them
MeasurementCols(name) ==
    IF name \in {"device_temperature", "computed_temperature"} THEN {"temperature"}
    ELSE {c \in Range(Get(data_frames, name).cols) : c \notin RawTimeNames}

\* C9 (as claimed): every stream ingested with at least one row has its
\* measurement columns in the merged dataset.
C9_AllStreamsJoined ==
    pc = "done" =>
        \A name \in ingested :
            \A c \in MeasurementCols(name) :
                c \in Range(final_df.cols) \/ (c \o "_" \o name) \in Range(final_df.cols)

\* C10 (as claimed): for every non-primary, non-empty series merge_all_data
\* has a join key, and it is the column the normalizer normalized.
C10_SameJoinKey ==
    (pc \in {"done", "failed"} /\ timeline # EmptyFrame) =>
        \A k \in 1..Len(data_frames) :
            (data_frames[k][1] # "blood_glucose" /\ data_frames[k][2].rows # <<>>) =>
                /\ TimeCols(data_frames[k][2]) # <<>>
                /\ TimeCols(data_frames[k][2])[1] = StampCol(data_frames[k][2])

====
